---- MODULE Spec2Model ----
(***************************************************************************)
(* alx-polly: the server actions of app/lib/actions/poll-actions.ts over   *)
(* the two backend tables, polls and votes.                                *)
(*                                                                         *)
(* poll-actions.ts holds two revisions of the module: lines 1-224 (the     *)
(* documented one) and lines 226-392 (the one with sanitizeInput).  A      *)
(* deployment runs one of them: rev is chosen in Init and never changes.   *)
(* getPollById, submitVote, deletePoll and updatePoll are the same code in *)
(* both; createPoll and getUserPolls differ.                               *)
(*                                                                         *)
(* Every server action is one request: a client invokes it (Invoke...),    *)
(* the handler runs as a whole (one action per handler), and the client    *)
(* takes the answer (Return).  call holds the request and what the backend *)
(* answers to it (who the session belongs to, whether the database call    *)
(* fails); result holds what the handler returned; pre is a history        *)
(* variable: the tables as the handler found them.                         *)
(*                                                                         *)
(* A text is a sequence of tokens: a letter, a blank, or Markup, which     *)
(* stands for one <script>...</script> element.                            *)
(*                                                                         *)
(* The tables do what the handlers' queries say: row level security        *)
(* policies, if the backend has any, are configured outside this code and  *)
(* are not modelled.  Ids and created_at are the backend's: both grow with *)
(* every insert.                                                           *)
(*                                                                         *)
(* Besides the poll operations the module holds: the auth actions (login,  *)
(* register, logout, getCurrentUser, getSession) over an auth backend of   *)
(* accounts and one session; updatePoll and deletePoll as concurrent       *)
(* requests that interleave at their awaits (callers); and the options     *)
(* state of PollCreateForm and EditPollForm, with the updaters React       *)
(* queues between two renders.  Each has its own specification: Spec,      *)
(* SpecVote, SpecAuth, SpecAll, SpecConcurrent, SpecForm.                  *)
(***************************************************************************)
EXTENDS Integers, Sequences, FiniteSets, TLC

VARIABLES rev, polls, votes, nextId, pc, call, result, pre,
          accounts, session, authCalls,
          callers, writeLog,
          form, formOptions, rendered, pending

\* the auth backend: the registered accounts, whose session the client's cookie
\* holds, and (history) the calls the running handler made to it
authVars == <<accounts, session, authCalls>>

\* concurrent requests: where each caller's handler stands, and (history) the
\* statements on the polls table in the order the backend executed them
concVars == <<callers, writeLog>>

\* the form component in the browser: which one is mounted, its options state,
\* the options as the last render saw them (what the handlers' closures hold),
\* and the state updaters queued since that render
formVars == <<form, formOptions, rendered, pending>>

vars == <<rev, polls, votes, nextId, pc, call, result, pre, authVars, concVars,
          formVars>>

(* ------------------------------ bounds ------------------------------- *)

\* polls ever inserted in one behaviour
MaxPolls == 2
\* votes ever inserted in one behaviour
MaxVotes == 1
\* requests in flight at the same time
NumCallers == 2
\* option fields a form grows to
MaxOptions == 4
\* calls of the form's handlers between two renders
MaxPending == 2

(* ------------------------------ values ------------------------------- *)

Null == "null"
Users == {"userA", "userB"}

Markup == "<script>"
Space == " "

Empty == <<>>
Blank == <<Space>>
TextA == <<"a">>
TextB == <<"b">>
TextAB == <<"a", "b">>
Script == <<Markup>>
ScriptA == <<Markup, "a">>

ValidationError == "Please provide a question and at least two options."
MustLogInToCreate == "You must be logged in to create a poll."
MustLogInToUpdate == "You must be logged in to update a poll."
NotAuthenticated == "Not authenticated"
\* userError.message and error.message: whatever the backend says
AuthErrorMessage == "userError.message"
BackendErrorMessage == "error.message"

\* what supabase.auth.getUser() answers: a user, no user, or no user and an error
Session(user, error) == [user |-> user, error |-> error]
AuthStates ==
    {Session(u, Null) : u \in Users}
        \cup {Session(Null, Null), Session(Null, AuthErrorMessage)}

\* the FormData of a submission: the field question and the fields options
FormData(question, options) == [question |-> question, options |-> options]
NoForm == FormData(Empty, <<>>)

Forms ==
    { FormData(Empty, <<TextA, TextB>>),            \* no question
      FormData(TextA, <<TextA, Empty>>),            \* one option filled in
      FormData(TextA, <<TextB, Empty, TextA>>),     \* plain, one field left empty
      FormData(TextA, <<TextA, Blank>>),            \* an option of blanks only
      FormData(ScriptA, <<ScriptA, Script, TextA>>),\* markup in question and options
      FormData(Script, <<TextA, TextB>>) }          \* a question of markup only

PlainForms == { FormData(TextA, <<TextB, Empty, TextA>>) }

\* the edit form submitted with another question and other options
EditedForms == { FormData(TextB, <<TextA, TextB>>) }

PollIds == 1..(MaxPolls + 1)
OptionIndexes == {0, 2}

(* ------------------------------- text -------------------------------- *)

\* String.prototype.trim
RECURSIVE trim(_)
trim(s) ==
    IF s = <<>> THEN s
    ELSE IF Head(s) = Space THEN trim(Tail(s))
    ELSE IF s[Len(s)] = Space THEN trim(SubSeq(s, 1, Len(s) - 1))
    ELSE s

\* purify.sanitize: the script elements are removed, the rest is kept
sanitizeInput(input) == SelectSeq(input, LAMBDA ch : ch # Markup)

\* formData.getAll("options").filter(Boolean): the empty string is the falsy one
filterBoolean(options) == SelectSeq(options, LAMBDA option : option # <<>>)

\* .filter((option) => option.trim() !== "").map((option) => sanitizeInput(option))
filterTrimSanitize(options) ==
    LET kept == SelectSeq(options, LAMBDA option : trim(option) # <<>>)
    IN  [i \in 1..Len(kept) |-> sanitizeInput(kept[i])]

\* if (!question || options.length < 2)
invalidInput(question, options) == question = <<>> \/ Len(options) < 2

(* ----------------------------- requests ------------------------------ *)

Call(op, auth, id, formData, optionIndex, backendFails) ==
    [op |-> op, auth |-> auth, id |-> id, formData |-> formData,
     optionIndex |-> optionIndex, backendFails |-> backendFails]
NoCall == Call("none", Session(Null, Null), 0, NoForm, 0, FALSE)

Result(threw, error, data, revalidated) ==
    [threw |-> threw, error |-> error, data |-> data, revalidated |-> revalidated]
NoResult == Result(FALSE, Null, <<>>, FALSE)

Tables == [polls |-> polls, votes |-> votes]

\* the handler's answer, with the tables it leaves behind
Respond(res, newPolls, newVotes, newId) ==
    /\ result' = res
    /\ polls' = newPolls
    /\ votes' = newVotes
    /\ nextId' = newId
    /\ pre' = Tables
    /\ pc' = "returned"
    /\ UNCHANGED <<rev, call, authVars, concVars, formVars>>

Handling(op) == pc = "called" /\ call.op = op

(* ----------------------------- backend ------------------------------- *)

\* the row the backend makes of an insert into polls: id and created_at are its own
pollRow(user_id, question, options) ==
    [id |-> nextId, user_id |-> user_id, question |-> question,
     options |-> options, created_at |-> nextId]

\* the rows of a set by created_at, latest first
RECURSIVE orderByCreatedAtDesc(_)
orderByCreatedAtDesc(rows) ==
    IF rows = {} THEN <<>>
    ELSE LET latest == CHOOSE r \in rows : \A s \in rows : s.created_at <= r.created_at
         IN  <<latest>> \o orderByCreatedAtDesc(rows \ {latest})

(* ---------------------------- the handlers --------------------------- *)

\* mutant: the check of the user is left out
authError_userNotChecked(auth, message) ==
    IF auth.error # Null THEN auth.error ELSE Null

\* if (userError) ...; if (!user) ...: the error to return, Null to go on
authError(auth, message) ==
    IF auth.error # Null THEN auth.error
    ELSE IF auth.user = Null THEN message
    ELSE Null

\* mutant: the listing is revalidated whether or not the insert succeeded
insertPoll_revalidatesAlways(user, question, options) ==
    IF call.backendFails
    THEN Respond(Result(FALSE, BackendErrorMessage, <<>>, TRUE), polls, votes, nextId)
    ELSE Respond(Result(FALSE, Null, <<>>, TRUE),
                 polls \cup {pollRow(user, question, options)}, votes, nextId + 1)

\* the insert of createPoll and what follows it
insertPoll(user, question, options) ==
    IF call.backendFails
    THEN Respond(Result(FALSE, BackendErrorMessage, <<>>, FALSE), polls, votes, nextId)
    ELSE Respond(Result(FALSE, Null, <<>>, TRUE),
                 polls \cup {pollRow(user, question, options)}, votes, nextId + 1)

createPollRev1(formData) ==
    LET question == formData.question
        options == filterBoolean(formData.options)
    IN  IF invalidInput(question, options)
        THEN Respond(Result(FALSE, ValidationError, <<>>, FALSE), polls, votes, nextId)
        ELSE IF authError(call.auth, MustLogInToCreate) # Null
        THEN Respond(Result(FALSE, authError(call.auth, MustLogInToCreate), <<>>, FALSE),
                     polls, votes, nextId)
        ELSE insertPoll(call.auth.user, question, options)

\* mutant: the user is looked up before the input is validated
createPollRev2_userFirst(formData) ==
    LET question == sanitizeInput(formData.question)
        options == filterTrimSanitize(formData.options)
    IN  IF authError(call.auth, MustLogInToCreate) # Null
        THEN Respond(Result(FALSE, authError(call.auth, MustLogInToCreate), <<>>, FALSE),
                     polls, votes, nextId)
        ELSE IF invalidInput(question, options)
        THEN Respond(Result(FALSE, ValidationError, <<>>, FALSE), polls, votes, nextId)
        ELSE insertPoll(call.auth.user, question, options)

createPollRev2(formData) ==
    LET question == sanitizeInput(formData.question)
        options == filterTrimSanitize(formData.options)
    IN  IF invalidInput(question, options)
        THEN Respond(Result(FALSE, ValidationError, <<>>, FALSE), polls, votes, nextId)
        ELSE IF authError(call.auth, MustLogInToCreate) # Null
        THEN Respond(Result(FALSE, authError(call.auth, MustLogInToCreate), <<>>, FALSE),
                     polls, votes, nextId)
        ELSE insertPoll(call.auth.user, question, options)

createPoll ==
    /\ Handling("createPoll")
    /\ IF rev = 1 THEN createPollRev1(call.formData) ELSE createPollRev2(call.formData)

\* mutant: the filter on user_id is left out
selectUserPolls_everyUser(user_id) == orderByCreatedAtDesc(polls)

\* .from("polls").select("*").eq("user_id", user_id).order("created_at", {ascending: false})
selectUserPolls(user_id) ==
    orderByCreatedAtDesc({p \in polls : p.user_id = user_id})

getUserPollsRev1 ==
    IF call.auth.user = Null
    THEN Respond(Result(FALSE, NotAuthenticated, <<>>, FALSE), polls, votes, nextId)
    ELSE IF call.backendFails
    THEN Respond(Result(FALSE, BackendErrorMessage, <<>>, FALSE), polls, votes, nextId)
    ELSE Respond(Result(FALSE, Null, selectUserPolls(call.auth.user), FALSE),
                 polls, votes, nextId)

\* const { data: { user: { id: user_id } } } = ...: with no user the destructuring
\* of null throws a TypeError, which no handler catches
getUserPollsRev2 ==
    IF call.auth.user = Null
    THEN Respond(Result(TRUE, Null, <<>>, FALSE), polls, votes, nextId)
    ELSE IF call.backendFails
    THEN Respond(Result(FALSE, BackendErrorMessage, <<>>, FALSE), polls, votes, nextId)
    ELSE Respond(Result(FALSE, Null, selectUserPolls(call.auth.user), FALSE),
                 polls, votes, nextId)

getUserPolls ==
    /\ Handling("getUserPolls")
    /\ IF rev = 1 THEN getUserPollsRev1 ELSE getUserPollsRev2

\* mutant: only the caller's own polls are looked up
selectPollById_ownOnly(id) == {p \in polls : p.id = id /\ p.user_id = call.auth.user}

\* .from("polls").select("*").eq("id", id).single(): one row, or an error when
\* no row matches (ids are unique, so never more than one)
selectPollById(id) == {p \in polls : p.id = id}

NoRowsMessage == "JSON object requested, multiple (or no) rows returned"

getPollById(id) ==
    /\ Handling("getPollById")
    /\ IF call.backendFails
       THEN Respond(Result(FALSE, BackendErrorMessage, <<>>, FALSE), polls, votes, nextId)
       ELSE IF Cardinality(selectPollById(id)) # 1
       THEN Respond(Result(FALSE, NoRowsMessage, <<>>, FALSE), polls, votes, nextId)
       ELSE Respond(Result(FALSE, Null, <<CHOOSE p \in selectPollById(id) : TRUE>>, FALSE),
                    polls, votes, nextId)

\* mutant: every vote is stored as anonymous
voteRow_anonymous(pollId, user, optionIndex) ==
    [poll_id |-> pollId, user_id |-> Null, option_index |-> optionIndex]

\* { poll_id: pollId, user_id: user?.id ?? null, option_index: optionIndex }
voteRow(pollId, user, optionIndex) ==
    [poll_id |-> pollId, user_id |-> user, option_index |-> optionIndex]

submitVote(pollId, optionIndex) ==
    /\ Handling("submitVote")
    /\ IF call.backendFails
       THEN Respond(Result(FALSE, BackendErrorMessage, <<>>, FALSE), polls, votes, nextId)
       ELSE Respond(Result(FALSE, Null, <<>>, FALSE), polls,
                    Append(votes, voteRow(pollId, call.auth.user, optionIndex)), nextId)

\* mutant: only the caller's own polls are deleted
deleteRows_ownOnly(id) == {p \in polls : ~(p.id = id /\ p.user_id = call.auth.user)}

\* .from("polls").delete().eq("id", id): the table without the rows that match
deleteRows(id) == {p \in polls : ~(p.id = id)}

\* mutant: the votes of the deleted poll are deleted with it
deletePoll_cascade(id) ==
    /\ Handling("deletePoll")
    /\ IF call.backendFails
       THEN Respond(Result(FALSE, BackendErrorMessage, <<>>, FALSE), polls, votes, nextId)
       ELSE Respond(Result(FALSE, Null, <<>>, TRUE), deleteRows(id),
                    SelectSeq(votes, LAMBDA v : v.poll_id # id), nextId)

deletePoll(id) ==
    /\ Handling("deletePoll")
    /\ IF call.backendFails
       THEN Respond(Result(FALSE, BackendErrorMessage, <<>>, FALSE), polls, votes, nextId)
       ELSE Respond(Result(FALSE, Null, <<>>, TRUE), deleteRows(id), votes, nextId)

\* mutant: an upsert, which inserts the row when none matches
updateRows_upsert(pollId, user_id, question, options) ==
    IF \E p \in polls : p.id = pollId /\ p.user_id = user_id
    THEN { IF p.id = pollId /\ p.user_id = user_id
           THEN [p EXCEPT !.question = question, !.options = options]
           ELSE p : p \in polls }
    ELSE polls \cup {[id |-> pollId, user_id |-> user_id, question |-> question,
                      options |-> options, created_at |-> pollId]}

\* mutant: the update also writes the caller's id into user_id
updateRows_takesOwnership(pollId, user_id, question, options) ==
    { IF p.id = pollId
      THEN [p EXCEPT !.question = question, !.options = options, !.user_id = user_id]
      ELSE p : p \in polls }

\* mutant: the filter on user_id is left out
updateRows_anyOwner(pollId, user_id, question, options) ==
    { IF p.id = pollId
      THEN [p EXCEPT !.question = question, !.options = options]
      ELSE p : p \in polls }

\* .from("polls").update({ question, options }).eq("id", pollId).eq("user_id", user.id)
updateRows(pollId, user_id, question, options) ==
    { IF p.id = pollId /\ p.user_id = user_id
      THEN [p EXCEPT !.question = question, !.options = options]
      ELSE p : p \in polls }

\* mutant: the update is issued before the input and the caller are checked
updatePoll_writesFirst(pollId, formData) ==
    /\ Handling("updatePoll")
    /\ LET question == formData.question
           options == filterBoolean(formData.options)
           written == updateRows_anyOwner(pollId, call.auth.user, question, options)
       IN  IF invalidInput(question, options)
           THEN Respond(Result(FALSE, ValidationError, <<>>, FALSE), written, votes, nextId)
           ELSE IF authError(call.auth, MustLogInToUpdate) # Null
           THEN Respond(Result(FALSE, authError(call.auth, MustLogInToUpdate), <<>>, FALSE),
                        written, votes, nextId)
           ELSE Respond(Result(FALSE, Null, <<>>, FALSE), written, votes, nextId)

updatePoll(pollId, formData) ==
    /\ Handling("updatePoll")
    /\ LET question == formData.question
           options == filterBoolean(formData.options)
       IN  IF invalidInput(question, options)
           THEN Respond(Result(FALSE, ValidationError, <<>>, FALSE), polls, votes, nextId)
           ELSE IF authError(call.auth, MustLogInToUpdate) # Null
           THEN Respond(Result(FALSE, authError(call.auth, MustLogInToUpdate), <<>>, FALSE),
                        polls, votes, nextId)
           ELSE IF call.backendFails
           THEN Respond(Result(FALSE, BackendErrorMessage, <<>>, FALSE),
                        polls, votes, nextId)
           ELSE Respond(Result(FALSE, Null, <<>>, FALSE),
                        updateRows(pollId, call.auth.user, question, options),
                        votes, nextId)

(* --------------------------- auth actions ---------------------------- *)

Emails == {"a@example.com", "b@example.com"}
Passwords == {"secret", "other"}
Names == {"Ann"}

\* the id the auth backend gives the account of an email
userOf(email) == IF email = "a@example.com" THEN "userA" ELSE "userB"

LoginFormData(email, password) == [email |-> email, password |-> password]
RegisterFormData(email, password, name) ==
    [email |-> email, password |-> password, name |-> name]

\* messages of the auth backend
InvalidCredentials == "Invalid login credentials"
AlreadyRegistered == "User already registered"

\* what the auth backend answers, and the state it is in afterwards
AuthResponse(error, newAccounts, newSession) ==
    [error |-> error, accounts |-> newAccounts, session |-> newSession]

\* supabase.auth.signInWithPassword({ email, password }): the answers possible
signInWithPassword(credentials) ==
    IF call.backendFails
    THEN {AuthResponse(BackendErrorMessage, accounts, session)}
    ELSE IF \E a \in accounts :
                a.email = credentials.email /\ a.password = credentials.password
    THEN {AuthResponse(Null, accounts, userOf(credentials.email))}
    ELSE {AuthResponse(InvalidCredentials, accounts, session)}

\* supabase.auth.signUp({ email, password, options: { data: { name } } }); whether
\* the new user is signed in at once is the backend's configuration
signUp(credentials) ==
    IF call.backendFails
    THEN {AuthResponse(BackendErrorMessage, accounts, session)}
    ELSE IF \E a \in accounts : a.email = credentials.email
    THEN {AuthResponse(AlreadyRegistered, accounts, session)}
    ELSE {AuthResponse(Null, accounts \cup {credentials}, s) :
             s \in {session, userOf(credentials.email)}}

\* supabase.auth.signOut()
signOut ==
    IF call.backendFails
    THEN {AuthResponse(BackendErrorMessage, accounts, session)}
    ELSE {AuthResponse(Null, accounts, Null)}

AuthCall(method, args, response) ==
    [method |-> method, args |-> args, response |-> response]

\* the answer of an auth action after its one call to the auth backend
RespondAuth(res, method, args, response) ==
    /\ result' = res
    /\ accounts' = response.accounts
    /\ session' = response.session
    /\ authCalls' = Append(authCalls, AuthCall(method, args, response))
    /\ pre' = Tables
    /\ pc' = "returned"
    /\ UNCHANGED <<rev, call, polls, votes, nextId, concVars, formVars>>

\* mutant: the backend's error is not passed on
errorOf_hidden(response) == Null

\* if (error) return { error: error.message }; return { error: null }
errorOf(response) == IF response.error # Null THEN response.error ELSE Null

login(data) ==
    /\ Handling("login")
    /\ LET credentials == LoginFormData(data.email, data.password)
       IN  \E response \in signInWithPassword(credentials) :
              RespondAuth(Result(FALSE, errorOf(response), <<>>, FALSE),
                          "signInWithPassword", credentials, response)

register(data) ==
    /\ Handling("register")
    /\ LET credentials == RegisterFormData(data.email, data.password, data.name)
       IN  \E response \in signUp(credentials) :
              RespondAuth(Result(FALSE, errorOf(response), <<>>, FALSE),
                          "signUp", credentials, response)

logout ==
    /\ Handling("logout")
    /\ \E response \in signOut :
          RespondAuth(Result(FALSE, errorOf(response), <<>>, FALSE),
                      "signOut", NoForm, response)

\* supabase.auth.getUser() and getSession(): data.user and data.session are null
\* without a session and when the call fails; <<>> stands for null
currentUser == IF call.backendFails \/ session = Null THEN <<>> ELSE <<session>>

getCurrentUser ==
    /\ Handling("getCurrentUser")
    /\ Respond(Result(FALSE, Null, currentUser, FALSE), polls, votes, nextId)

getSession ==
    /\ Handling("getSession")
    /\ Respond(Result(FALSE, Null, currentUser, FALSE), polls, votes, nextId)

(* ------------------------ concurrent requests ------------------------ *)

Callers == 1..NumCallers

\* a request of one caller: the handler it runs, the await it stands at, its
\* arguments and, once it is done, what it returned
Request(op, at, id, formData, user, error) ==
    [op |-> op, at |-> at, id |-> id, formData |-> formData, user |-> user,
     error |-> error]
Idle == Request("none", "idle", 0, NoForm, Null, Null)

\* two edits of one poll that differ in question and in options
ConcurrentForms == EditedForms \cup { FormData(TextAB, <<TextB, TextB>>) }

Statement(caller, op, id, question, options) ==
    [caller |-> caller, op |-> op, id |-> id, question |-> question, options |-> options]

Advance(c, request) ==
    /\ callers' = [callers EXCEPT ![c] = request]
    /\ UNCHANGED <<rev, votes, nextId, pc, call, result, pre, authVars, formVars>>

\* updatePoll up to its first await: the form is read and validated, getUser is
\* called
UpdatePollStart(c) ==
    /\ pc = "idle"
    /\ callers[c] = Idle
    /\ \E p \in polls, formData \in ConcurrentForms :
          LET question == formData.question
              options == filterBoolean(formData.options)
          IN  IF invalidInput(question, options)
              THEN Advance(c, Request("updatePoll", "done", p.id, formData, Null,
                                      ValidationError))
              ELSE Advance(c, Request("updatePoll", "getUser", p.id, formData, Null, Null))
    /\ UNCHANGED <<polls, writeLog>>

\* getUser answers; the update statement is sent to the backend
UpdatePollGetUser(c) ==
    /\ callers[c].op = "updatePoll"
    /\ callers[c].at = "getUser"
    /\ \E auth \in {Session("userA", Null), Session(Null, Null)} :
          IF authError(auth, MustLogInToUpdate) # Null
          THEN Advance(c, [callers[c] EXCEPT !.at = "done",
                                             !.error = authError(auth, MustLogInToUpdate)])
          ELSE Advance(c, [callers[c] EXCEPT !.at = "update", !.user = auth.user])
    /\ UNCHANGED <<polls, writeLog>>

\* the backend executes the update statement, or fails to; the handler returns
UpdatePollWrite(c) ==
    /\ callers[c].op = "updatePoll"
    /\ callers[c].at = "update"
    /\ LET question == callers[c].formData.question
           options == filterBoolean(callers[c].formData.options)
       IN  \E backendFails \in BOOLEAN :
              IF backendFails
              THEN /\ Advance(c, [callers[c] EXCEPT !.at = "done",
                                                    !.error = BackendErrorMessage])
                   /\ UNCHANGED <<polls, writeLog>>
              ELSE /\ Advance(c, [callers[c] EXCEPT !.at = "done"])
                   /\ polls' = updateRows(callers[c].id, callers[c].user, question, options)
                   /\ writeLog' = Append(writeLog,
                          Statement(c, "update", callers[c].id, question, options))

\* deletePoll up to its await: the delete statement is sent to the backend
DeletePollStart(c) ==
    /\ pc = "idle"
    /\ callers[c] = Idle
    /\ \E p \in polls : Advance(c, Request("deletePoll", "delete", p.id, NoForm, Null, Null))
    /\ UNCHANGED <<polls, writeLog>>

\* the backend executes the delete statement, or fails to; the handler returns
DeletePollWrite(c) ==
    /\ callers[c].op = "deletePoll"
    /\ callers[c].at = "delete"
    /\ \E backendFails \in BOOLEAN :
          IF backendFails
          THEN /\ Advance(c, [callers[c] EXCEPT !.at = "done",
                                                !.error = BackendErrorMessage])
               /\ UNCHANGED <<polls, writeLog>>
          ELSE /\ Advance(c, [callers[c] EXCEPT !.at = "done"])
               /\ polls' = deleteRows(callers[c].id)
               /\ writeLog' = Append(writeLog,
                      Statement(c, "delete", callers[c].id, Empty, <<>>))

(* ---------------------------- the forms ------------------------------ *)

\* the options a stored poll can have: what a handler keeps of a valid submission
StoredOptions ==
    { filterBoolean(formData.options) : formData \in
          {f \in Forms : ~invalidInput(f.question, filterBoolean(f.options))} }

\* the state updaters the handlers pass to setOptions
MapUpdater(idx, value) == [kind |-> "map", idx |-> idx, value |-> value]
AppendUpdater == [kind |-> "append", idx |-> 0, value |-> Empty]
FilterUpdater(idx) == [kind |-> "filter", idx |-> idx, value |-> Empty]

\* opts.filter((_, i) => i !== idx), with idx counted from 0
filterIndex(opts, idx) ==
    [i \in 1..(Len(opts) - (IF idx + 1 \in 1..Len(opts) THEN 1 ELSE 0)) |->
        IF i < idx + 1 THEN opts[i] ELSE opts[i + 1]]

applyUpdater(updater, opts) ==
    IF updater.kind = "map"
    THEN [i \in 1..Len(opts) |-> IF i = updater.idx + 1 THEN updater.value ELSE opts[i]]
    ELSE IF updater.kind = "append"
    THEN Append(opts, Empty)
    ELSE filterIndex(opts, updater.idx)

\* the queued updaters applied in order to the state
RECURSIVE flush(_, _)
flush(updaters, opts) ==
    IF updaters = <<>> THEN opts
    ELSE flush(Tail(updaters), applyUpdater(Head(updaters), opts))

FormUnchanged == UNCHANGED <<rev, polls, votes, nextId, pc, call, result, pre,
                             authVars, concVars>>

Mount(component, initialOptions) ==
    /\ form = "none"
    /\ form' = component
    /\ formOptions' = initialOptions
    /\ rendered' = initialOptions
    /\ pending' = <<>>
    /\ FormUnchanged

\* useState(["", ""])
MountPollCreateForm == Mount("PollCreateForm", <<Empty, Empty>>)

\* useState(poll.options || []), for a stored poll
MountEditPollForm == \E options \in StoredOptions : Mount("EditPollForm", options)

setOptions(updater) ==
    /\ pending' = Append(pending, updater)
    /\ UNCHANGED <<form, formOptions, rendered>>
    /\ FormUnchanged

\* an input or a button of the rendered form calls a handler; the handlers are
\* those of the last render
Mounted == form # "none" /\ Len(pending) < MaxPending
RenderedIndexes == 0..(Len(rendered) - 1)

handleOptionChange ==
    /\ Mounted
    /\ \E idx \in RenderedIndexes, value \in {Empty, TextA} :
          setOptions(MapUpdater(idx, value))

addOption ==
    /\ Mounted
    /\ Len(rendered) + Len(pending) < MaxOptions
    /\ setOptions(AppendUpdater)

removeOption ==
    /\ Mounted
    /\ \E idx \in RenderedIndexes :
          IF Len(rendered) > 2
          THEN setOptions(FilterUpdater(idx))
          ELSE UNCHANGED vars

\* React runs the queued updaters and renders the component again
Render ==
    /\ form # "none"
    /\ pending # <<>>
    /\ formOptions' = flush(pending, formOptions)
    /\ rendered' = flush(pending, formOptions)
    /\ pending' = <<>>
    /\ UNCHANGED form
    /\ FormUnchanged

(* ------------------------------ clients ------------------------------ *)

Invoke(c) ==
    /\ pc = "idle"
    /\ call' = c
    /\ pc' = "called"
    /\ UNCHANGED <<rev, polls, votes, nextId, result, pre, authVars, concVars, formVars>>

InvokeCreatePoll(forms, sessions) ==
    /\ nextId <= MaxPolls
    /\ \E formData \in forms, auth \in sessions, backendFails \in BOOLEAN :
          Invoke(Call("createPoll", auth, 0, formData, 0, backendFails))

InvokeGetUserPolls ==
    \E auth \in AuthStates, backendFails \in BOOLEAN :
        Invoke(Call("getUserPolls", auth, 0, NoForm, 0, backendFails))

InvokeGetPollById ==
    \E id \in PollIds, auth \in AuthStates, backendFails \in BOOLEAN :
        Invoke(Call("getPollById", auth, id, NoForm, 0, backendFails))

InvokeSubmitVote(sessions) ==
    /\ Len(votes) < MaxVotes
    /\ \E pollId \in PollIds, optionIndex \in OptionIndexes, auth \in sessions,
          backendFails \in BOOLEAN :
          Invoke(Call("submitVote", auth, pollId, NoForm, optionIndex, backendFails))

InvokeDeletePoll(sessions) ==
    \E id \in PollIds, auth \in sessions, backendFails \in BOOLEAN :
        Invoke(Call("deletePoll", auth, id, NoForm, 0, backendFails))

InvokeUpdatePoll(forms, sessions) ==
    \E pollId \in PollIds, formData \in forms, auth \in sessions,
       backendFails \in BOOLEAN :
        Invoke(Call("updatePoll", auth, pollId, formData, 0, backendFails))

InvokeLogin(emails) ==
    \E email \in emails, password \in Passwords, backendFails \in BOOLEAN :
        Invoke(Call("login", Session(session, Null), 0,
                    LoginFormData(email, password), 0, backendFails))

InvokeRegister(emails) ==
    \E email \in emails, password \in Passwords, name \in Names,
       backendFails \in BOOLEAN :
        Invoke(Call("register", Session(session, Null), 0,
                    RegisterFormData(email, password, name), 0, backendFails))

InvokeLogout ==
    \E backendFails \in BOOLEAN :
        Invoke(Call("logout", Session(session, Null), 0, NoForm, 0, backendFails))

InvokeGetCurrentUser ==
    \E backendFails \in BOOLEAN :
        Invoke(Call("getCurrentUser", Session(session, Null), 0, NoForm, 0, backendFails))

InvokeGetSession ==
    \E backendFails \in BOOLEAN :
        Invoke(Call("getSession", Session(session, Null), 0, NoForm, 0, backendFails))

Return ==
    /\ pc = "returned"
    /\ pc' = "idle"
    /\ call' = NoCall
    /\ result' = NoResult
    /\ pre' = Tables
    /\ authCalls' = <<>>
    /\ UNCHANGED <<rev, polls, votes, nextId, accounts, session, concVars, formVars>>

(* --------------------------- specifications -------------------------- *)

Init ==
    /\ rev \in {1, 2}
    /\ polls = {}
    /\ votes = <<>>
    /\ nextId = 1
    /\ pc = "idle"
    /\ call = NoCall
    /\ result = NoResult
    /\ pre = [polls |-> {}, votes |-> <<>>]
    /\ accounts = {}
    /\ session = Null
    /\ authCalls = <<>>
    /\ callers = [c \in Callers |-> Idle]
    /\ writeLog = <<>>
    /\ form = "none"
    /\ formOptions = <<>>
    /\ rendered = <<>>
    /\ pending = <<>>

\* the poll operations, with every form and every caller
Next ==
    \/ InvokeCreatePoll(Forms, AuthStates)
    \/ InvokeGetUserPolls
    \/ InvokeGetPollById
    \/ InvokeDeletePoll(AuthStates)
    \/ InvokeUpdatePoll(Forms, AuthStates)
    \/ createPoll
    \/ getUserPolls
    \/ getPollById(call.id)
    \/ deletePoll(call.id)
    \/ updatePoll(call.id, call.formData)
    \/ Return

Spec == Init /\ [][Next]_vars

\* voting, on polls that one user creates and edits and anyone deletes
VoteSessions == {Session("userA", Null), Session(Null, Null), Session(Null, AuthErrorMessage)}

NextVote ==
    \/ InvokeCreatePoll(PlainForms, {Session("userA", Null)})
    \/ InvokeDeletePoll({Session(Null, Null)})
    \/ InvokeSubmitVote(VoteSessions)
    \/ InvokeUpdatePoll(EditedForms, {Session("userA", Null)})
    \/ createPoll
    \/ deletePoll(call.id)
    \/ updatePoll(call.id, call.formData)
    \/ submitVote(call.id, call.optionIndex)
    \/ Return

SpecVote == Init /\ [][NextVote]_vars

\* registering, logging in and out, and creating polls as whoever is logged in
NextAuth ==
    \/ InvokeRegister(Emails)
    \/ InvokeLogin(Emails)
    \/ InvokeLogout
    \/ InvokeGetCurrentUser
    \/ InvokeGetSession
    \/ InvokeCreatePoll(PlainForms, {Session(session, Null)})
    \/ register(call.formData)
    \/ login(call.formData)
    \/ logout
    \/ getCurrentUser
    \/ getSession
    \/ createPoll
    \/ Return

SpecAuth == Init /\ [][NextAuth]_vars

\* every operation of the two modules, with a few inputs each
FewForms == PlainForms \cup EditedForms \cup { FormData(Empty, <<TextA, TextB>>) }
FewSessions == {Session("userA", Null), Session(Null, AuthErrorMessage)}

NextAll ==
    \/ InvokeCreatePoll(FewForms, FewSessions)
    \/ InvokeGetUserPolls
    \/ InvokeGetPollById
    \/ InvokeSubmitVote(FewSessions)
    \/ InvokeDeletePoll(FewSessions)
    \/ InvokeUpdatePoll(FewForms, FewSessions)
    \/ InvokeRegister({"a@example.com"})
    \/ InvokeLogin({"a@example.com"})
    \/ InvokeLogout
    \/ InvokeGetCurrentUser
    \/ InvokeGetSession
    \/ createPoll
    \/ getUserPolls
    \/ getPollById(call.id)
    \/ submitVote(call.id, call.optionIndex)
    \/ deletePoll(call.id)
    \/ updatePoll(call.id, call.formData)
    \/ register(call.formData)
    \/ login(call.formData)
    \/ logout
    \/ getCurrentUser
    \/ getSession
    \/ Return

SpecAll == Init /\ [][NextAll]_vars

\* one poll is created; then its owner's updatePoll and deletePoll requests run
\* at the same time, interleaved at their awaits
NextConcurrent ==
    \/ (polls = {} /\ InvokeCreatePoll(PlainForms, {Session("userA", Null)}))
    \/ createPoll
    \/ Return
    \/ \E c \in Callers :
          \/ UpdatePollStart(c)
          \/ UpdatePollGetUser(c)
          \/ UpdatePollWrite(c)
          \/ DeletePollStart(c)
          \/ DeletePollWrite(c)

SpecConcurrent == Init /\ [][NextConcurrent]_vars

\* a user at one of the two forms
NextForm ==
    \/ MountPollCreateForm
    \/ MountEditPollForm
    \/ handleOptionChange
    \/ addOption
    \/ removeOption
    \/ Render

SpecForm == Init /\ [][NextForm]_vars

(* ------------------------------ claims ------------------------------- *)

Returned(op) == pc = "returned" /\ call.op = op
Writes == {"createPoll", "updatePoll"}
ReturnedWrite == pc = "returned" /\ call.op \in Writes

AuthenticationErrors == {MustLogInToCreate, MustLogInToUpdate, AuthErrorMessage}

\* the options of a submission that are not blank: something is left after trimming
NonBlank(options) == SelectSeq(options, LAMBDA option : trim(option) # <<>>)
\* the options of a submission that are not the empty string
NonEmpty(options) == SelectSeq(options, LAMBDA option : option # <<>>)

\* an input every revision of createPoll and updatePoll lets through validation
WellFormed(formData) ==
    /\ formData.question # <<>>
    /\ sanitizeInput(formData.question) # <<>>
    /\ Len(NonBlank(formData.options)) >= 2

TargetRows == {p \in pre.polls : p.id = call.id}

\* C1: a createPoll or updatePoll whose question is empty or which has fewer than
\* two non-blank options returns the validation error and leaves the polls table
\* as it was.
C1_InvalidInputRejected ==
    (/\ ReturnedWrite
     /\ \/ call.formData.question = <<>>
        \/ Len(NonBlank(call.formData.options)) < 2)
        => (result.error = ValidationError /\ polls = pre.polls)

\* C2, as claimed: a createPoll or updatePoll by an unauthenticated caller returns
\* an authentication error and leaves the polls table as it was.
C2_UnauthenticatedGetsAuthError ==
    (ReturnedWrite /\ call.auth.user = Null)
        => (result.error \in AuthenticationErrors /\ polls = pre.polls)

\* C2, amended: a createPoll or updatePoll by an unauthenticated caller leaves the
\* polls table as it was and returns an error, which is an authentication error
\* when the input is well formed and may be the validation error when it is not.
C2_UnauthenticatedNeverWrites ==
    (ReturnedWrite /\ call.auth.user = Null)
        => /\ polls = pre.polls
           /\ ~result.threw
           /\ result.error \in AuthenticationErrors \cup {ValidationError}
           /\ WellFormed(call.formData) => result.error \in AuthenticationErrors

\* an unauthenticated caller submitted a well-formed update of a stored poll, with
\* other texts than the stored ones, and got the authentication error
C2_Witness ==
    /\ Returned("updatePoll")
    /\ call.auth.user = Null
    /\ WellFormed(call.formData)
    /\ \E p \in TargetRows : p.question # call.formData.question
    /\ result.error = MustLogInToUpdate
    /\ polls = pre.polls

\* C3: a stored poll is changed or removed only by a call of the user who owns it.
C3_OnlyOwnerChangesOrRemoves ==
    pc = "returned" =>
        \A p \in pre.polls : p \notin polls => call.auth.user = p.user_id

Rows(seq) == {seq[i] : i \in 1..Len(seq)}

\* C4: for an authenticated caller whose query the backend answers, getUserPolls
\* returns error = null and exactly the stored polls whose user_id is the caller's,
\* each once, by created_at descending (the empty sequence when there are none).
C4_GetUserPollsOwnLatestFirst ==
    (Returned("getUserPolls") /\ call.auth.user # Null /\ ~call.backendFails)
        => /\ ~result.threw
           /\ result.error = Null
           /\ Rows(result.data) = {p \in polls : p.user_id = call.auth.user}
           /\ Len(result.data) = Cardinality(Rows(result.data))
           /\ \A i, j \in 1..Len(result.data) :
                 i < j => result.data[i].created_at > result.data[j].created_at

\* the caller got two polls, the later one first
C4_Witness ==
    /\ Returned("getUserPolls")
    /\ call.auth.user \in Users
    /\ Len(result.data) = 2
    /\ result.data[1].created_at > result.data[2].created_at
    /\ result.error = Null

\* C5: getUserPolls by an unauthenticated caller does not throw and returns an
\* error with an empty sequence of polls.
C5_UnauthenticatedGetUserPolls ==
    (Returned("getUserPolls") /\ call.auth.user = Null)
        => (~result.threw /\ result.error # Null /\ result.data = <<>>)

\* C6: when the backend answers the query, getPollById(id) returns the stored poll
\* with that id and error = null if there is one, no poll and an error if there is
\* none, whoever calls.
C6_GetPollById ==
    (Returned("getPollById") /\ ~call.backendFails)
        => /\ ~result.threw
           /\ \A p \in polls :
                 p.id = call.id => (result.data = <<p>> /\ result.error = Null)
           /\ (\A p \in polls : p.id # call.id)
                 => (result.data = <<>> /\ result.error # Null)

\* a caller who is not logged in fetched a stored poll
C6_Witness ==
    /\ Returned("getPollById")
    /\ call.auth.user = Null
    /\ Len(result.data) = 1
    /\ result.data[1].id = call.id
    /\ result.data[1] \in polls
    /\ result.error = Null

\* C7: submitVote, whoever calls and whatever pollId and optionIndex are, appends
\* the one row (pollId, the caller's id or null, optionIndex) to votes and returns
\* error = null, unless the backend insert fails: then votes is as it was and the
\* backend's error is returned.
C7_SubmitVote ==
    Returned("submitVote")
        => /\ ~result.threw
           /\ IF call.backendFails
              THEN result.error = BackendErrorMessage /\ votes = pre.votes
              ELSE /\ result.error = Null
                   /\ votes = Append(pre.votes,
                                     [poll_id |-> call.id, user_id |-> call.auth.user,
                                      option_index |-> call.optionIndex])

\* an anonymous vote for a poll that is not stored, with an index no poll has
C7_Witness ==
    /\ Returned("submitVote")
    /\ call.auth.user = Null
    /\ \A p \in polls : p.id # call.id
    /\ call.optionIndex = 2
    /\ Len(votes) = Len(pre.votes) + 1
    /\ votes[Len(votes)].user_id = Null
    /\ result.error = Null

\* C8: when the backend answers, an updatePoll with a non-empty question and two
\* non-empty options by an authenticated caller returns error = null, the same
\* answer whether a poll was updated or not; and if the caller owns no poll with
\* that id (it is another user's, or there is none) the polls table is as it was.
C8_UpdateByNonOwnerIsSilent ==
    (/\ Returned("updatePoll")
     /\ call.auth.user \in Users
     /\ call.formData.question # <<>>
     /\ Len(NonEmpty(call.formData.options)) >= 2
     /\ ~call.backendFails)
        => /\ result = Result(FALSE, Null, <<>>, FALSE)
           /\ (\A p \in TargetRows : p.user_id # call.auth.user) => polls = pre.polls

\* userB updated userA's poll with other texts: nothing changed, no error
C8_Witness ==
    /\ Returned("updatePoll")
    /\ call.auth.user = "userB"
    /\ \E p \in TargetRows : p.user_id = "userA" /\ p.question # call.formData.question
    /\ result.error = Null
    /\ polls = pre.polls

Written == polls \ pre.polls

\* C10: in the revision that has sanitizeInput, the question a createPoll or an
\* updatePoll stores is the sanitized question of the submission, and every option
\* it stores is the sanitized form of a submitted option.
C10_StoredTextIsSanitized ==
    (ReturnedWrite /\ rev = 2)
        => \A p \in Written :
              /\ p.question = sanitizeInput(call.formData.question)
              /\ \A i \in 1..Len(p.options) :
                    \E j \in 1..Len(call.formData.options) :
                        p.options[i] = sanitizeInput(call.formData.options[j])

\* C11: every stored poll has one owner, a non-empty question and at least two
\* options, none of which is empty or made of blanks only.
C11_StoredPollWellFormed ==
    \A p \in polls :
        /\ p.user_id \in Users
        /\ p.question # <<>>
        /\ Len(p.options) >= 2
        /\ \A i \in 1..Len(p.options) : trim(p.options[i]) # <<>>

\* what createPoll of the deployed revision rejects as invalid, and what updatePoll
\* rejects as invalid
CreateRejects(formData) ==
    IF rev = 1
    THEN invalidInput(formData.question, filterBoolean(formData.options))
    ELSE invalidInput(sanitizeInput(formData.question),
                      filterTrimSanitize(formData.options))
UpdateRejects(formData) ==
    invalidInput(formData.question, filterBoolean(formData.options))

\* C12: for an authenticated caller, updatePoll returns the validation error for
\* exactly the inputs for which createPoll returns it.
C12_SameValidation ==
    /\ (Returned("updatePoll") /\ call.auth.user \in Users)
          => (result.error = ValidationError <=> CreateRejects(call.formData))
    /\ (Returned("createPoll") /\ call.auth.user \in Users)
          => (result.error = ValidationError <=> UpdateRejects(call.formData))

\* stored options that are, position by position, the submitted ones, each as
\* submitted or as sanitizeInput leaves it
StoredAs(stored, submitted) ==
    /\ Len(stored) = Len(submitted)
    /\ \A i \in 1..Len(stored) :
          stored[i] \in {submitted[i], sanitizeInput(submitted[i])}

\* C14: the options a successful createPoll or updatePoll stores are the submitted
\* non-blank options, in their submitted order and with duplicates kept.
C14_StoredOptionsAreNonBlankInOrder ==
    (ReturnedWrite /\ result.error = Null)
        => \A p \in Written : StoredAs(p.options, NonBlank(call.formData.options))

\* the polls table before and after a handler, by id
RowBefore(id) == {p \in pre.polls : p.id = id}
RowAfter(id) == {p \in polls : p.id = id}

\* C15: createPoll stores the caller's id as user_id of the new poll, and no
\* handler changes the user_id of a stored poll; updatePoll in particular.
C15_OwnerSetOnceNeverChanged ==
    pc = "returned" =>
        /\ \A p \in polls, q \in pre.polls : p.id = q.id => p.user_id = q.user_id
        /\ \A p \in polls :
              RowBefore(p.id) = {} => (call.op = "createPoll" /\ p.user_id = call.auth.user)

\* the owner's updatePoll replaced question and options of the poll, whose user_id
\* is still the owner's
C15_Witness ==
    /\ Returned("updatePoll")
    /\ result.error = Null
    /\ \E q \in TargetRows, p \in RowAfter(call.id) :
          /\ p.question # q.question
          /\ p.options # q.options
          /\ p.user_id = q.user_id
          /\ p.user_id = call.auth.user

\* C16: createPoll and deletePoll call revalidatePath exactly when they return
\* error = null.
C16_RevalidateIffNoError ==
    (Returned("createPoll") \/ Returned("deletePoll"))
        => (result.revalidated <=> result.error = Null)

\* both outcomes of both operations: a createPoll that stored a poll and a
\* deletePoll that removed one revalidated; failed ones did not
C16_Witness ==
    /\ Returned("deletePoll")
    /\ result.error = Null
    /\ result.revalidated
    /\ TargetRows # {}
    /\ RowAfter(call.id) = {}

\* C17: votes are insert-only. Every handler leaves the stored votes in place and
\* only submitVote adds one; deletePoll and updatePoll leave the votes table as it
\* was, also the votes of the deleted poll and those whose index the updated
\* options no longer have.
C17_VotesInsertOnly ==
    /\ Len(votes) >= Len(pre.votes)
    /\ SubSeq(votes, 1, Len(pre.votes)) = pre.votes
    /\ ~Returned("submitVote") => votes = pre.votes

\* deletePoll removed a poll that has a vote, and the vote is still stored
C17_Witness ==
    /\ Returned("deletePoll")
    /\ TargetRows # {}
    /\ RowAfter(call.id) = {}
    /\ \E i \in 1..Len(votes) : votes[i].poll_id = call.id
    /\ votes = pre.votes

\* updatePoll replaced the options of a poll that has a vote for an index the new
\* options do not have, and the vote is still stored
C17_WitnessUpdate ==
    /\ Returned("updatePoll")
    /\ \E q \in TargetRows, p \in RowAfter(call.id) :
          /\ p.options # q.options
          /\ \E i \in 1..Len(votes) :
                votes[i].poll_id = call.id /\ votes[i].option_index >= Len(p.options)
    /\ votes = pre.votes

AuthActions == {"login", "register", "logout"}
AuthMethod(op) ==
    IF op = "login" THEN "signInWithPassword"
    ELSE IF op = "register" THEN "signUp" ELSE "signOut"

\* C13: login, register and logout each make one call to the auth backend, with
\* the submitted credentials; they return the backend's error message as it is
\* and null when there is none; the session afterwards is the one the backend
\* set, and the polls and votes tables are as they were.
C13_AuthActionsDelegate ==
    (pc = "returned" /\ call.op \in AuthActions)
        => /\ Len(authCalls) = 1
           /\ authCalls[1].method = AuthMethod(call.op)
           /\ authCalls[1].args = call.formData
           /\ result = Result(FALSE, authCalls[1].response.error, <<>>, FALSE)
           /\ session = authCalls[1].response.session
           /\ accounts = authCalls[1].response.accounts
           /\ polls = pre.polls
           /\ votes = pre.votes

\* a login with a wrong password, while a poll is stored: the backend's message
\* came back, nothing else changed
C13_Witness ==
    /\ Returned("login")
    /\ \E a \in accounts : a.email = call.formData.email /\ a.password # call.formData.password
    /\ result.error = InvalidCredentials
    /\ polls # {}
    /\ polls = pre.polls

Reads == {"getUserPolls", "getPollById", "getCurrentUser", "getSession"}

\* the ids of the polls rows a handler inserted, changed or deleted
ChangedIds == {id \in PollIds : RowBefore(id) # RowAfter(id)}

\* C19: an invocation makes at most one backend write: it changes one row of one
\* table (or the auth backend, once) and nothing else; one that returns an error
\* or throws changes neither table; getUserPolls, getPollById, getCurrentUser and
\* getSession never change them.
C19_AtMostOneWrite ==
    pc = "returned" =>
        /\ Cardinality(ChangedIds) + (Len(votes) - Len(pre.votes)) + Len(authCalls) <= 1
        /\ SubSeq(votes, 1, Len(pre.votes)) = pre.votes
        /\ \A p \in polls : p.question # <<>> /\ Len(p.options) >= 2
        /\ (result.error # Null \/ result.threw) => (polls = pre.polls /\ votes = pre.votes)
        /\ call.op \in Reads => (polls = pre.polls /\ votes = pre.votes /\ authCalls = <<>>)

\* an updatePoll that the backend failed, on a stored poll that has a vote: the
\* error came back and both tables are as they were
C19_Witness ==
    /\ Returned("updatePoll")
    /\ result.error = BackendErrorMessage
    /\ \E q \in TargetRows : q.user_id = call.auth.user /\ q.question # call.formData.question
    /\ votes # <<>>
    /\ polls = pre.polls
    /\ votes = pre.votes

\* the statements the backend executed on the poll with this id, in order
StatementsOn(id) == SelectSeq(writeLog, LAMBDA s : s.id = id)

\* C18: with updatePoll and deletePoll requests of the owner interleaved in every
\* way, a poll that was updated holds the question and the options of the update
\* statement the backend executed last, both of the same request; and a poll that
\* was deleted is not stored again, whatever update is executed after the delete.
C18_LastWriteWinsNoRecreate ==
    \A id \in PollIds :
        LET statements == StatementsOn(id)
            last == statements[Len(statements)]
        IN  /\ (\E i \in 1..Len(statements) : statements[i].op = "delete")
                  => RowAfter(id) = {}
            /\ (statements # <<>> /\ \A i \in 1..Len(statements) : statements[i].op = "update")
                  => \E p \in polls :
                        /\ RowAfter(id) = {p}
                        /\ p.question = last.question
                        /\ p.options = last.options

\* two callers updated the same poll with different questions and options, both
\* have returned, and the poll holds the texts of the one executed last
C18_Witness ==
    /\ Len(writeLog) = 2
    /\ writeLog[1].op = "update" /\ writeLog[2].op = "update"
    /\ writeLog[1].id = writeLog[2].id
    /\ writeLog[1].caller # writeLog[2].caller
    /\ writeLog[1].question # writeLog[2].question
    /\ writeLog[1].options # writeLog[2].options
    /\ \A c \in Callers : callers[c].at = "done"
    /\ \E p \in polls : p.question = writeLog[2].question /\ p.options = writeLog[2].options

\* an update that was under way when the poll was deleted was executed after the
\* delete, and the poll is not stored
C18_WitnessDelete ==
    /\ Len(writeLog) = 2
    /\ writeLog[1].op = "delete" /\ writeLog[2].op = "update"
    /\ writeLog[1].id = writeLog[2].id
    /\ callers[writeLog[2].caller].error = Null
    /\ RowAfter(writeLog[1].id) = {}

\* C20: in PollCreateForm and in EditPollForm the options list holds at least two
\* entries after any sequence of addOption, handleOptionChange and removeOption
\* calls, also when several removeOption calls are made before the next render.
C20_AtLeastTwoOptions ==
    form # "none" => Len(formOptions) >= 2

\* what the validation of the called handler says of the submitted form
Rejects ==
    IF call.op = "createPoll"
    THEN CreateRejects(call.formData)
    ELSE UpdateRejects(call.formData)
MustLogIn == IF call.op = "createPoll" THEN MustLogInToCreate ELSE MustLogInToUpdate

\* C21: createPoll and updatePoll check the input first, then the caller, then
\* write.  An input the handler's validation rejects gets the validation message
\* whoever calls and whatever the backend would do; an accepted input with a
\* failed user lookup gets the lookup's error message, and without a user the
\* must-be-logged-in message; the error of the write is returned only when both
\* checks passed; and an answer with an error leaves the polls table as it was.
C21_ValidationThenAuthThenWrite ==
    ReturnedWrite =>
        /\ result.error =
              IF Rejects THEN ValidationError
              ELSE IF call.auth.error # Null THEN call.auth.error
              ELSE IF call.auth.user = Null THEN MustLogIn
              ELSE IF call.backendFails THEN BackendErrorMessage
              ELSE Null
        /\ result.error # Null => polls = pre.polls

\* all three checks would fail: an input without question, a failed user lookup
\* and a backend that fails the write; the validation message is returned
C21_Witness ==
    /\ ReturnedWrite
    /\ Rejects
    /\ call.auth.error # Null
    /\ call.backendFails
    /\ result.error = ValidationError

\* the last two checks would fail: the lookup's message is returned, not the
\* write's
C21_WitnessLookup ==
    /\ ReturnedWrite
    /\ ~Rejects
    /\ call.auth.error # Null
    /\ call.backendFails
    /\ result.error = AuthErrorMessage

====
